---------------------------- MODULE Spec2Model ----------------------------
(***************************************************************************)
(* Risk aggregation engine of VoyageRisk360.                               *)
(*                                                                         *)
(*   server/seedShipments.ts  (risk engine part, lines 890-1132)           *)
(*   server/services/weatherService.ts                                     *)
(*   unnamed/part_001         (services/trafficService.ts)                 *)
(*                                                                         *)
(* One call of an exported function (calculateRouteRisk, or one of the two *)
(* providers getRouteWeatherRisk and getRouteTrafficRisk on its own) is    *)
(* modelled as a state machine whose steps are the turns of the Node.js    *)
(* event loop: the call itself, the completion of a weather fetch, an      *)
(* event of a vessel-feed WebSocket, the firing of a session timer.  A     *)
(* turn runs its handler and then every continuation that the handler made *)
(* ready (the code after an await whose promise the handler settled):      *)
(* promise reactions are microtasks, and the microtask queue is emptied    *)
(* before the next turn starts.                                            *)
(***************************************************************************)
EXTENDS Integers, Sequences, FiniteSets

(***************************************************************************)
(* Bounds of the model.                                                    *)
(***************************************************************************)
\* Longest waypoint list given to calculateRouteRisk.
MaxWaypoints == 1
\* Longest waypoint list given to a provider that is called on its own.
MaxProviderWaypoints == 2
\* Number of distinct vessel identifiers the feed can report.
MaxVessels == 1
\* Longest waypoint list given to the sampling step on its own.
MaxSampleN == 100
\* Largest number of distinct vessels given to the density score on its own.
MaxVesselCount == 2600
\* Longest waypoint list given to the estimator on its own.
MaxEstimatorWaypoints == 2
\* Largest vessel identifier the feed reports to two sessions that are open
\* at the same time.
MaxPairVessels == 2
\* Longest waypoint list in the body of a request.
MaxBodyWaypoints == 2
\* Largest vessel identifier the feed reports to a session on its own.
MaxSessionVessels == 3

(***************************************************************************)
(* A JavaScript value that is a number or one of the non-numbers the       *)
(* program meets: null, NaN, and a promise that is still pending.          *)
(***************************************************************************)
Num(n) == [type |-> "number", val |-> n]
NULL == [type |-> "null", val |-> 0]
NaN == [type |-> "NaN", val |-> 0]
PENDING == [type |-> "pending", val |-> 0]

IsNumber(v) == v.type = "number"

Min(a, b) == IF a <= b THEN a ELSE b
Abs(a) == IF a < 0 THEN 0 - a ELSE a

(***************************************************************************)
(* Waypoints.  The engine only compares coordinates with zone bounds, so   *)
(* whole degrees are enough.  The first point is outside the valid range  *)
(* of latitude and longitude; nothing in the engine rejects it.            *)
(***************************************************************************)
Waypoint(lat, lng) == [latitude |-> lat, longitude |-> lng]

Points ==
    { Waypoint(95, 200),   \* out of range, in no zone
      Waypoint(3, 103) }   \* Malacca Strait: traffic and piracy zones

Zone(a, b, c, d) == [minLat |-> a, maxLat |-> b, minLng |-> c, maxLng |-> d]

HIGH_RISK_ZONES ==
    [ piracy  |-> { Zone(0, 15, 40, 60), Zone(0 - 5, 10, 90, 110) },
      weather |-> { Zone(10, 30, 40, 80), Zone(20, 40, 120, 160) },
      traffic |-> { Zone(1, 5, 100, 106), Zone(30, 40, 0 - 10, 10) },
      claims  |-> { Zone(5, 20, 65, 85), Zone(35, 45, 10, 30) } ]

\* Upper bounds taken as exclusive: the variant that C16_InclusiveBounds
\* has to tell from isInZone.
isInZone_exclusive(lat, lng, zone) ==
    /\ lat >= zone.minLat
    /\ lat < zone.maxLat
    /\ lng >= zone.minLng
    /\ lng < zone.maxLng

isInZone(lat, lng, zone) ==
    /\ lat >= zone.minLat
    /\ lat <= zone.maxLat
    /\ lng >= zone.minLng
    /\ lng <= zone.maxLng

(***************************************************************************)
(* Math.random() * 0.5, in 64ths.  The values are dyadic, so the double    *)
(* sum in calculateSimulatedRisk is exact, and for lists of up to seven    *)
(* waypoints the double quotient and product round as the exact ones do.   *)
(***************************************************************************)
Jitter64 == {3, 8}

JitterVectors(n) == [1..n -> Jitter64]

RECURSIVE SumTo(_, _)
SumTo(f, n) == IF n = 0 THEN 0 ELSE f[n] + SumTo(f, n - 1)

\* A waypoint inside a zone counted as 1 instead of 2: the variant that
\* C19_EstimatorFormula has to tell from riskPoints64.
riskPoints64_weightOne(waypoints, zones, jit) ==
    SumTo([i \in 1..Len(waypoints) |->
              IF \E zone \in zones :
                   isInZone(waypoints[i].latitude, waypoints[i].longitude, zone)
              THEN 64
              ELSE jit[i]],
          Len(waypoints))

\* riskPoints * 64 after the forEach of calculateSimulatedRisk.
riskPoints64(waypoints, zones, jit) ==
    SumTo([i \in 1..Len(waypoints) |->
              IF \E zone \in zones :
                   isInZone(waypoints[i].latitude, waypoints[i].longitude, zone)
              THEN 128
              ELSE jit[i]],
          Len(waypoints))

\* Math.min(Math.round((riskPoints / (totalChecks * 2)) * 100), 100);
\* 0 / 0 is NaN, and Math.round and Math.min keep NaN.
calculateSimulatedRisk(waypoints, zones, jit) ==
    LET totalChecks == Len(waypoints)
        rp == riskPoints64(waypoints, zones, jit)
    IN  IF totalChecks = 0
        THEN NaN
        ELSE Num(Min((200 * rp + 128 * totalChecks) \div (256 * totalChecks),
                     100))

\* A waypoint inside a zone counted as 1 in the synchronous engine only:
\* the variant that C28_SameAsSynchronous has to tell from
\* calculateFactorRisk.
calculateFactorRisk_weightOne(waypoints, zones, jit) ==
    LET totalChecks == Len(waypoints)
        rp == riskPoints64_weightOne(waypoints, zones, jit)
    IN  IF totalChecks = 0
        THEN NaN
        ELSE Num(Min((200 * rp + 128 * totalChecks) \div (256 * totalChecks),
                     100))

\* The synchronous engine's calculateFactorRisk, lines 930-947: the same
\* computation, without a special case for an empty list either.
calculateFactorRisk(waypoints, zones, jit) ==
    LET totalChecks == Len(waypoints)
        rp == riskPoints64(waypoints, zones, jit)
        avgRisk256 == 200 * rp
    IN  IF totalChecks = 0
        THEN NaN
        ELSE Num(Min((avgRisk256 + 128 * totalChecks) \div (256 * totalChecks),
                     100))

\* Every value the estimator can return for these waypoints and zones.
SimulatedValues(waypoints, zones) ==
    { calculateSimulatedRisk(waypoints, zones, jit) :
          jit \in JitterVectors(Len(waypoints)) }

(***************************************************************************)
(* weatherService.ts                                                       *)
(***************************************************************************)
Reading(w, ww, sw, cu) ==
    [wave_height |-> w, wind_wave_height |-> ww,
     swell_wave_height |-> sw, ocean_current_velocity |-> cu]

\* The value of a property that the parsed body does not have.
UNDEFINED == [type |-> "undefined", val |-> 0]

\* data.current of the body of a 2xx response, as far as it is read: each
\* field is a number (metres and km/h, whole numbers) or is missing.
MarineData(w, ww, sw, cu) ==
    [wave_height |-> w, wind_wave_height |-> ww,
     swell_wave_height |-> sw, ocean_current_velocity |-> cu]

\* What a 2xx response of the marine weather service can carry: a body
\* without the requested fields (such as {}), or readings.  The service is
\* not under the program's control: nothing in fetchMarineWeather checks
\* that a field is there or the sign of a value.
MarineResponses ==
    { MarineData(UNDEFINED, UNDEFINED, UNDEFINED, UNDEFINED),
      MarineData(Num(2), Num(1), Num(0), Num(6)),
      MarineData(Num(0 - 4), Num(0), Num(0), Num(0)) }

\* v ?? d
Coalesce(v, d) == IF v = UNDEFINED THEN d ELSE v.val

\* The WeatherData that fetchMarineWeather returns for a body, lines 44-50.
parseWeatherData(data) ==
    Reading(Coalesce(data.wave_height, 0),
            Coalesce(data.wind_wave_height, 0),
            Coalesce(data.swell_wave_height, 0),
            Coalesce(data.ocean_current_velocity, 0))

\* The body has the four requested fields.
isComplete(data) ==
    /\ data.wave_height # UNDEFINED
    /\ data.wind_wave_height # UNDEFINED
    /\ data.swell_wave_height # UNDEFINED
    /\ data.ocean_current_velocity # UNDEFINED

\* calculateWeatherRisk(weather).riskScore.  The three factors are kept
\* times 3, their weighted sum times 30 and the product with the swell
\* multiplier times 300, which makes every step exact.
weatherRiskScore(weather) ==
    LET waveRisk3     == Min(75 * weather.wave_height, 300)
        windWaveRisk3 == Min(100 * weather.wind_wave_height, 300)
        currentRisk3  == Min(20 * weather.ocean_current_velocity, 300)
        swellMultiplier10 == IF weather.swell_wave_height > 2 THEN 12 ELSE 10
        overallRisk300 ==
            Min((4 * waveRisk3 + 4 * windWaveRisk3 + 2 * currentRisk3)
                    * swellMultiplier10,
                30000)
    IN  (overallRisk300 + 150) \div 300

\* No sampling, every waypoint taken: the variant that C15_CallsBounded has
\* to tell from sampleInterval.
sampleInterval_one(n, target) == 1

\* A stride rounded up instead of down: the variant that C14_EveryKth has
\* to tell from sampleInterval.
sampleInterval_ceil(n, target) ==
    IF (n + target - 1) \div target >= 1
    THEN (n + target - 1) \div target
    ELSE 1

\* The sampling of getRouteWeatherRisk and getRouteTrafficRisk:
\* filter((_, index) => index % sampleInterval === 0), 0-based.
sampleInterval(n, target) ==
    IF n \div target >= 1 THEN n \div target ELSE 1

RECURSIVE sampleFrom(_, _, _)
sampleFrom(waypoints, k, i) ==
    IF i > Len(waypoints)
    THEN << >>
    ELSE IF (i - 1) % k = 0
         THEN <<waypoints[i]>> \o sampleFrom(waypoints, k, i + 1)
         ELSE sampleFrom(waypoints, k, i + 1)

sampledWaypoints(waypoints, target) ==
    sampleFrom(waypoints, sampleInterval(Len(waypoints), target), 1)

\* Math.round(sum / count) of a non-empty sequence of integers.
roundedMean(scores) ==
    LET n == Len(scores)
        sum == SumTo(scores, n)
    IN  (2 * sum + n) \div (2 * n)

(***************************************************************************)
(* The overall score is computed in IEEE-754 binary64:                     *)
(*   Math.round(weather * 0.25 + piracy * 0.35 + traffic * 0.2             *)
(*              + claims * 0.2)                                            *)
(* 0.35 and 0.2 are not binary fractions, so the products and sums are     *)
(* rounded.  Every intermediate value is below 128 in magnitude and is a   *)
(* multiple of 2^-55, so a double is kept as sign and magnitude, the       *)
(* magnitude in units of 2^-55 as three limbs of 21 bits <<hi, mid, lo>>   *)
(* (it stays below 2^62).                                                  *)
(***************************************************************************)
Limb == 2 ^ 21

\* The doubles nearest to 0.25, 0.35 and 0.2, in units of 2^-55:
\* 2^53, 0x2CCCCCCCCCCCCC and 0x1999999999999A.
Dbl025 == <<2048, 0, 0>>
Dbl035 == <<2867, 419430, 838860>>
Dbl02 == <<1638, 838860, 1677722>>

\* Carries (or borrows) brought into the next limb.
Carry(hi, mid, lo) ==
    LET m == mid + (lo \div Limb)
    IN  <<hi + (m \div Limb), m % Limb, lo % Limb>>

RECURSIVE BitLen(_)
BitLen(n) == IF n = 0 THEN 0 ELSE 1 + BitLen(n \div 2)

\* Round to nearest, ties to even, to 53 significant bits.  hi holds bits
\* 42 and up, so a magnitude of more than 53 bits has BitLen(hi) > 11 and
\* loses its lowest BitLen(hi) - 11 (at most 9) bits, all of them in lo.
Round53(m) ==
    LET d == BitLen(m[1]) - 11
    IN  IF d <= 0
        THEN m
        ELSE LET q == 2 ^ d
                 r == m[3] % q
                 up == \/ 2 * r > q
                       \/ 2 * r = q /\ (m[3] \div q) % 2 = 1
             IN  Carry(m[1], m[2], m[3] - r + (IF up THEN q ELSE 0))

MagLess(x, y) ==
    \/ x[1] < y[1]
    \/ x[1] = y[1] /\ x[2] < y[2]
    \/ x[1] = y[1] /\ x[2] = y[2] /\ x[3] < y[3]

\* k * c for an integer k with |k| < 128 and a constant c: the exact
\* product, rounded.
DblMul(k, c) ==
    [neg |-> k < 0,
     mag |-> Round53(Carry(c[1] * Abs(k), c[2] * Abs(k), c[3] * Abs(k)))]

\* x + y: the exact sum, rounded.
DblAdd(x, y) ==
    IF x.neg = y.neg
    THEN [neg |-> x.neg,
          mag |-> Round53(Carry(x.mag[1] + y.mag[1], x.mag[2] + y.mag[2],
                                x.mag[3] + y.mag[3]))]
    ELSE IF MagLess(x.mag, y.mag)
         THEN [neg |-> y.neg,
               mag |-> Round53(Carry(y.mag[1] - x.mag[1], y.mag[2] - x.mag[2],
                                     y.mag[3] - x.mag[3]))]
         ELSE [neg |-> x.neg,
               mag |-> Round53(Carry(x.mag[1] - y.mag[1], x.mag[2] - y.mag[2],
                                     x.mag[3] - y.mag[3]))]

\* Math.floor in the place of Math.round: the variant that C3_OverallNearest
\* has to tell from MathRound.
MathFloor(x) ==
    IF ~x.neg
    THEN x.mag[1] \div 8192
    ELSE LET m == Carry(x.mag[1] + 8191, x.mag[2] + Limb - 1,
                        x.mag[3] + Limb - 1)
         IN  0 - (m[1] \div 8192)

\* Math.round: floor(x + 0.5), exactly.  One is 2^13 in hi, a half 2^12.
MathRound(x) ==
    IF ~x.neg
    THEN (x.mag[1] + 4096) \div 8192
    ELSE IF MagLess(x.mag, <<4096, 0, 1>>)
         THEN 0
         ELSE LET m == Carry(x.mag[1] - 4096 + 8191, x.mag[2] + Limb - 1,
                             x.mag[3] + Limb - 1)
              IN  0 - (m[1] \div 8192)

\* The weather factor weighted 0.35 as piracy is, so that the weights sum
\* to 1.1: the variant that C26_OverallBetween has to tell from
\* weightedOverall.
weightedOverall_heavy(weather, piracy, traffic, claims) ==
    IF IsNumber(weather) /\ IsNumber(piracy) /\ IsNumber(traffic)
           /\ IsNumber(claims)
    THEN Num(MathRound(DblAdd(DblAdd(DblAdd(DblMul(weather.val, Dbl035),
                                            DblMul(piracy.val, Dbl035)),
                                     DblMul(traffic.val, Dbl02)),
                              DblMul(claims.val, Dbl02))))
    ELSE NaN

\* Line 1127: the weighted sum, left to right, and its rounding.  A
\* factor that is no number (NaN, or a promise that was not awaited)
\* makes the sum NaN.
weightedOverall(weather, piracy, traffic, claims) ==
    IF IsNumber(weather) /\ IsNumber(piracy) /\ IsNumber(traffic)
           /\ IsNumber(claims)
    THEN Num(MathRound(DblAdd(DblAdd(DblAdd(DblMul(weather.val, Dbl025),
                                            DblMul(piracy.val, Dbl035)),
                                     DblMul(traffic.val, Dbl02)),
                              DblMul(claims.val, Dbl02))))
    ELSE NaN

RiskScores(overall, weather, piracy, traffic, claims) ==
    [overall |-> overall, weather |-> weather, piracy |-> piracy,
     traffic |-> traffic, claims |-> claims]

(***************************************************************************)
(* trafficService.ts (unnamed/part_001)                                    *)
(***************************************************************************)
\* calculateBboxArea(0.5): (0.5 * 2 * 111)^2 square kilometres.
calculateBboxArea == 111 * 111

\* The last segment without its Math.min(..., 100): the variant that
\* C20_DensityCurve has to tell from trafficRiskScore.
trafficRiskScore_noClamp(vesselCount) ==
    LET area == calculateBboxArea
        c == vesselCount
    IN  IF 100 * c < area
        THEN Min((2000 * c + area) \div (2 * area), 20)
        ELSE IF 100 * c < 5 * area
             THEN (26 * area + 1500 * c) \div (2 * area)
             ELSE IF 10 * c < area
                  THEN (41 * area + 1200 * c) \div (2 * area)
                  ELSE (121 * area + 400 * c) \div (2 * area)

\* The riskScore of the timeout handler for vesselCount distinct vessels:
\* Math.round of the four-segment curve of density = vesselCount / area.
\* No vessel count puts a segment's value within 1e-5 of a half, so the
\* double and the exact value round alike.
trafficRiskScore(vesselCount) ==
    LET area == calculateBboxArea
        c == vesselCount
    IN  IF 100 * c < area
        THEN Min((2000 * c + area) \div (2 * area), 20)
        ELSE IF 100 * c < 5 * area
             THEN (26 * area + 1500 * c) \div (2 * area)
             ELSE IF 10 * c < area
                  THEN (41 * area + 1200 * c) \div (2 * area)
                  ELSE Min((121 * area + 400 * c) \div (2 * area), 100)

\* The closure of one getVesselDensity call.
\*   socket      what the WebSocket is doing: "none" (never constructed),
\*               "connecting", "open", "errored" (an error was emitted, the
\*               close is still to come) or "closed"
\*   ws          the variable ws holds the socket (is not null)
\*   closeCalled ws.close() was called
\*   subscribed  the subscription message was sent
\*   timeout     the timer: "unset", "pending", "cleared" or "fired"
\*   vessels     the Set of vessel identifiers
\*   promise     the returned promise: PENDING, NULL or Num(riskScore)
\*   called      getVesselDensity was called for this sampled waypoint
NotStarted ==
    [socket |-> "none", ws |-> FALSE, closeCalled |-> FALSE,
     subscribed |-> FALSE, timeout |-> "unset", vessels |-> {},
     promise |-> PENDING, called |-> FALSE]

\* A cleanup that clears the timer and leaves the socket alone: the variant
\* that C9_ReleasedOnResolve has to tell from cleanup.
cleanup_keepsSocket(s) ==
    [s EXCEPT !.timeout = IF s.timeout = "pending" THEN "cleared"
                          ELSE s.timeout]

\* cleanup(), lines 67-75.
cleanup(s) ==
    [s EXCEPT !.closeCalled = s.closeCalled \/ s.ws,
              !.ws = FALSE,
              !.timeout = IF s.timeout = "pending" THEN "cleared"
                          ELSE s.timeout]

\* resolve(v): a promise settles once.
resolve(s, v) ==
    [s EXCEPT !.promise = IF s.promise = PENDING THEN v ELSE s.promise]

\* A test for undefined only (apiKey === undefined), which takes "" for a
\* key: the variant that C6_NoSocketWithoutKey has to tell from isSet.
isSet_undefinedOnly(key) == key # "undefined"

\* The truthiness test !apiKey: undefined and "" are falsy.
ApiKeys == {"undefined", "", "key"}

isSet(key) == key # "undefined" /\ key # ""

\* getVesselDensity(lat, lng, apiKey, 8000) up to its return of the promise.
\* Without a key it resolves null at once.  Otherwise the executor runs:
\* new WebSocket either throws (catch: cleanup, resolve(null)) or returns,
\* and then the timer is set and the handlers are attached.
getVesselDensity(key, constructorThrows) ==
    IF ~isSet(key)
    THEN [NotStarted EXCEPT !.called = TRUE, !.promise = NULL]
    ELSE IF constructorThrows
         THEN resolve(cleanup([NotStarted EXCEPT !.called = TRUE]), NULL)
         ELSE [NotStarted EXCEPT !.called = TRUE, !.socket = "connecting",
                                 !.ws = TRUE, !.timeout = "pending"]

\* A loop that pushes every result, a null as a score of 0 (the test of
\* line 177 left out): the variant that C11_TrafficAverage has to tell
\* from pushResult.
pushResult_countsNull(trafficResults, s) ==
    Append(trafficResults, IF s.promise # NULL THEN s.promise.val ELSE 0)

\* getRouteTrafficRisk, line 178: if (result) results.push(result).
pushResult(trafficResults, s) ==
    IF s.promise # NULL
    THEN Append(trafficResults, s.promise.val)
    ELSE trafficResults

\* Lines 182-188, after the loop: null when no session gave a result,
\* else the rounded mean of the riskScores.
averageTrafficRisk(trafficResults) ==
    IF Len(trafficResults) = 0
    THEN NULL
    ELSE Num(roundedMean(trafficResults))

\* A loop that starts the sessions of all remaining sampled waypoints at
\* once, as Promise.all over a map would: the variant that
\* C7_SessionsSequential has to tell from trafficLoop.
trafficLoop_concurrent(sess, trafficResults, i, key) ==
    IF i > Len(sess)
    THEN { [sessions |-> sess, results |-> trafficResults,
            value |-> averageTrafficRisk(trafficResults), calls |-> 0] }
    ELSE { [sessions |-> [k \in DOMAIN sess |->
                             IF k >= i THEN getVesselDensity(key, FALSE)
                             ELSE sess[k]],
            results |-> trafficResults,
            value |-> PENDING,
            calls |-> Len(sess) - i + 1] }

\* The loop of getRouteTrafficRisk, lines 175-180, from the start of
\* iteration i: getVesselDensity is called for sampled waypoint i and
\* awaited.  While the promise is pending the loop is suspended; when it
\* is settled already (the constructor threw) the loop goes on in the same
\* turn.  After the last iteration the function returns its average.
\* The value is the set of the states the loop can be left in, one for
\* each way the constructor calls of this turn can end; calls is the number
\* of new WebSocket(...) calls the loop made on the way.
RECURSIVE trafficLoop(_, _, _, _)
trafficLoop(sess, trafficResults, i, key) ==
    IF i > Len(sess)
    THEN { [sessions |-> sess, results |-> trafficResults,
            value |-> averageTrafficRisk(trafficResults), calls |-> 0] }
    ELSE UNION {
           LET s == getVesselDensity(key, constructorThrows)
               sess1 == [sess EXCEPT ![i] = s]
           IN  IF s.promise = PENDING
               THEN { [sessions |-> sess1, results |-> trafficResults,
                       value |-> PENDING, calls |-> 1] }
               ELSE { [t EXCEPT !.calls = t.calls + 1] :
                          t \in trafficLoop(sess1,
                                            pushResult(trafficResults, s),
                                            i + 1, key) }
           : constructorThrows \in BOOLEAN }

\* getRouteTrafficRisk(waypoints, apiKey) up to its first suspension.
getRouteTrafficRisk(wps, key) ==
    IF Len(wps) = 0 \/ ~isSet(key)
    THEN { [sessions |-> << >>, results |-> << >>, value |-> NULL,
            calls |-> 0] }
    ELSE trafficLoop([i \in 1..Len(sampledWaypoints(wps, 3)) |-> NotStarted],
                     << >>, 1, key)

(***************************************************************************)
(* weatherService.ts: getRouteWeatherRisk                                  *)
(***************************************************************************)
\* An average whose denominator counts the failed samples too
\* (results.length for validResults.length): the variant that
\* C10_WeatherAverage has to tell from averageWeatherRisk.
averageWeatherRisk_countsFailures(riskResults) ==
    LET validResults == SelectSeq(riskResults, LAMBDA r : r # NULL)
        sum == SumTo([i \in 1..Len(validResults) |-> validResults[i].val],
                     Len(validResults))
        n == Len(riskResults)
    IN  IF Len(validResults) = 0
        THEN NULL
        ELSE Num((2 * sum + n) \div (2 * n))

\* Lines 126-134, once Promise.all has the result of every sampled
\* waypoint: null when no fetch succeeded, else the rounded mean of the
\* riskScores of those that did.
averageWeatherRisk(riskResults) ==
    LET validResults == SelectSeq(riskResults, LAMBDA r : r # NULL)
    IN  IF Len(validResults) = 0
        THEN NULL
        ELSE Num(roundedMean([i \in 1..Len(validResults) |->
                                  validResults[i].val]))

\* getRouteWeatherRisk(waypoints) up to its await: the promises of
\* getWeatherRisk for the sampled waypoints, each with its fetch under way.
\* An empty list returns null (line 114).
getRouteWeatherRisk(wps) ==
    IF Len(wps) = 0
    THEN [fetches |-> << >>, value |-> NULL]
    ELSE [fetches |-> [i \in 1..Len(sampledWaypoints(wps, 5)) |-> PENDING],
          value |-> PENDING]

\* The value of getRouteWeatherRisk's promise given the getWeatherRisk
\* promises: pending until Promise.all (line 123) has them all.
weatherPromise(riskPromises) ==
    IF \E i \in DOMAIN riskPromises : riskPromises[i] = PENDING
    THEN PENDING
    ELSE averageWeatherRisk(riskPromises)

(***************************************************************************)
(* The risk engine (seedShipments.ts, lines 1043-1132).                    *)
(***************************************************************************)
\* A fallback over the zones of another factor: the variant that
\* C4_FallbackComplete has to tell from calculateWeatherRisk.
calculateWeatherRisk_wrongZones(wps, realRisk) ==
    IF realRisk # NULL
    THEN {realRisk}
    ELSE SimulatedValues(wps, HIGH_RISK_ZONES.traffic)

\* The four factor functions return one of a set of values: which one
\* depends on what Math.random() returns in calculateSimulatedRisk.

\* calculateWeatherRisk, lines 1048-1055, once getRouteWeatherRisk has
\* returned realRisk.
calculateWeatherRisk(wps, realRisk) ==
    IF realRisk # NULL
    THEN {realRisk}
    ELSE SimulatedValues(wps, HIGH_RISK_ZONES.weather)

\* A fallback on every falsy result (if (realRisk) for realRisk !== null),
\* which takes a score of 0 for a missing one: the variant that
\* C24_ExactlyOneSource has to tell from calculateTrafficRisk.
calculateTrafficRisk_falsy(wps, realRisk) ==
    IF realRisk # NULL /\ realRisk # Num(0)
    THEN {realRisk}
    ELSE SimulatedValues(wps, HIGH_RISK_ZONES.traffic)

\* calculateTrafficRisk, lines 1074-1081, once getRouteTrafficRisk has
\* returned realRisk.
calculateTrafficRisk(wps, realRisk) ==
    IF realRisk # NULL
    THEN {realRisk}
    ELSE SimulatedValues(wps, HIGH_RISK_ZONES.traffic)

calculatePiracyRisk(wps) == SimulatedValues(wps, HIGH_RISK_ZONES.piracy)

calculateClaimsRisk(wps) == SimulatedValues(wps, HIGH_RISK_ZONES.claims)

\* A join that is satisfied by the first promise to settle (Promise.race,
\* Promise.any): the variant that C8_JoinAllFour has to tell from
\* allSettled.
anySettled(w, p, t, c) ==
    \/ w # PENDING
    \/ p # PENDING
    \/ t # PENDING
    \/ c # PENDING

\* Promise.all of line 1118 is fulfilled when all four promises are.
allSettled(w, p, t, c) ==
    /\ w # PENDING
    /\ p # PENDING
    /\ t # PENDING
    /\ c # PENDING

\* Lines 1127-1131.
combine(w, p, t, c) ==
    RiskScores(weightedOverall(w, p, t, c), w, p, t, c)

\* The synchronous calculateRouteRisk, lines 949-963, with the jitter of
\* each factor: jit[f][i] is what Math.random() * 0.5 gives for waypoint
\* i in the calculateFactorRisk call of factor f.
calculateRouteRisk_sync(wps, jit) ==
    IF Len(wps) = 0
    THEN RiskScores(Num(0), Num(0), Num(0), Num(0), Num(0))
    ELSE LET weatherRisk ==
                 calculateFactorRisk(wps, HIGH_RISK_ZONES.weather, jit.weather)
             piracyRisk ==
                 calculateFactorRisk(wps, HIGH_RISK_ZONES.piracy, jit.piracy)
             trafficRisk ==
                 calculateFactorRisk(wps, HIGH_RISK_ZONES.traffic, jit.traffic)
             claimsRisk ==
                 calculateFactorRisk(wps, HIGH_RISK_ZONES.claims, jit.claims)
         IN  RiskScores(weightedOverall(weatherRisk, piracyRisk, trafficRisk,
                                        claimsRisk),
                        weatherRisk, piracyRisk, trafficRisk, claimsRisk)

(***************************************************************************)
(* The state of one call.                                                  *)
(***************************************************************************)
VARIABLES
    entry,        \* the exported function that is called
    waypoints,    \* its argument
    apiKey,       \* process.env.AISSTREAM_API_KEY, or the apiKey argument
    pc,           \* "idle", "awaiting" (suspended at an await), "returned"
    fetches,      \* the getWeatherRisk promise of each sampled waypoint
    responses,    \* what the weather service answered for each of them:
                  \* "pending", "failed" (the fetch rejected or the status
                  \* was not 2xx), "incomplete" (2xx, fields missing) or
                  \* "complete"
    realWeather,  \* the promise of getRouteWeatherRisk
    sessions,     \* the getVesselDensity closure of each sampled waypoint
    results,      \* getRouteTrafficRisk's results array (the riskScores)
    realTraffic,  \* the promise of getRouteTrafficRisk
    weather,      \* the four promises given to Promise.all
    piracy,
    traffic,
    claims,
    returned,     \* the RiskScores that calculateRouteRisk returned
    fetchCalls,   \* number of fetch(url) calls so far
    socketCalls,  \* number of new WebSocket(...) calls so far
    simulated,    \* the factors calculateSimulatedRisk was called for
    call          \* a call of one of the pure functions on its own: the
                  \* function, its arguments and, once it has run, its
                  \* result (NoCall while the engine runs)

engineVars ==
    <<entry, waypoints, apiKey, pc, fetches, responses, realWeather, sessions,
      results, realTraffic, weather, piracy, traffic, claims, returned,
      fetchCalls, socketCalls, simulated>>

vars ==
    <<entry, waypoints, apiKey, pc, fetches, responses, realWeather, sessions, results,
      realTraffic, weather, piracy, traffic, claims, returned, fetchCalls,
      socketCalls, simulated, call>>

NoCall == [fn |-> "none", done |-> FALSE]

Entries == {"calculateRouteRisk", "getRouteWeatherRisk", "getRouteTrafficRisk"}

NoScores == RiskScores(PENDING, PENDING, PENDING, PENDING, PENDING)

WaypointLists(points, max) == UNION { [1..n -> points] : n \in 0..max }

\* A provider uses the coordinates of a waypoint only in the request it
\* sends (the query string, the bounding box); what comes back is up to the
\* service.  For a provider called on its own only the length of the list
\* matters, and its waypoints are all taken to be the same point.
Init ==
    /\ entry \in Entries
    /\ waypoints \in (IF entry = "calculateRouteRisk"
                      THEN WaypointLists(Points, MaxWaypoints)
                      ELSE WaypointLists({Waypoint(3, 103)},
                                         MaxProviderWaypoints))
    /\ apiKey \in (IF entry = "getRouteWeatherRisk" THEN {"undefined"}
                   ELSE ApiKeys)
    /\ pc = "idle"
    /\ fetches = << >>
    /\ responses = << >>
    /\ realWeather = PENDING
    /\ sessions = << >>
    /\ results = << >>
    /\ realTraffic = PENDING
    /\ weather = PENDING
    /\ piracy = PENDING
    /\ traffic = PENDING
    /\ claims = PENDING
    /\ returned = NoScores
    /\ fetchCalls = 0
    /\ socketCalls = 0
    /\ simulated = {}
    /\ call = NoCall

Started(i) == i \in DOMAIN sessions /\ sessions[i].called

\* new WebSocket is called once in every getVesselDensity call with a key.
constructed(sess) == Cardinality({i \in DOMAIN sess : sess[i].called})

\* The end of a turn.  When the turn settled the last of the four promises,
\* calculateRouteRisk resumes after line 1123 and returns; a provider
\* called on its own returns when its promise is settled.
endOfTurn ==
    IF pc # "returned" /\ entry = "calculateRouteRisk"
           /\ allSettled(weather', piracy', traffic', claims')
    THEN /\ returned' = combine(weather', piracy', traffic', claims')
         /\ pc' = "returned"
    ELSE /\ returned' = returned
         /\ pc' = IF \/ pc = "returned"
                     \/ entry = "getRouteWeatherRisk" /\ realWeather' # PENDING
                     \/ entry = "getRouteTrafficRisk" /\ realTraffic' # PENDING
                  THEN "returned"
                  ELSE "awaiting"

(***************************************************************************)
(* The call.                                                               *)
(***************************************************************************)
\* calculateRouteRisk([]) without the check of lines 1111-1113: every
\* factor goes its usual way, the providers return null for the empty list
\* and the estimator is called four times.  The variant that C2_EmptyList
\* has to tell from calculateRouteRisk_empty.
calculateRouteRisk_noEarlyReturn ==
    /\ pc = "idle"
    /\ entry = "calculateRouteRisk"
    /\ Len(waypoints) = 0
    /\ weather' \in SimulatedValues(waypoints, HIGH_RISK_ZONES.weather)
    /\ piracy' \in SimulatedValues(waypoints, HIGH_RISK_ZONES.piracy)
    /\ traffic' \in SimulatedValues(waypoints, HIGH_RISK_ZONES.traffic)
    /\ claims' \in SimulatedValues(waypoints, HIGH_RISK_ZONES.claims)
    /\ realWeather' = NULL
    /\ realTraffic' = IF isSet(apiKey) THEN NULL ELSE realTraffic
    /\ simulated' = {"weather", "piracy", "traffic", "claims"}
    /\ returned' = combine(weather', piracy', traffic', claims')
    /\ pc' = "returned"
    /\ UNCHANGED <<call, entry, waypoints, apiKey, fetches, responses, sessions, results,
                   fetchCalls, socketCalls>>

\* calculateRouteRisk([]), lines 1111-1113.
calculateRouteRisk_empty ==
    /\ pc = "idle"
    /\ entry = "calculateRouteRisk"
    /\ Len(waypoints) = 0
    /\ returned' = RiskScores(Num(0), Num(0), Num(0), Num(0), Num(0))
    /\ pc' = "returned"
    /\ UNCHANGED <<call, entry, waypoints, apiKey, fetches, responses, realWeather, sessions,
                   results, realTraffic, weather, piracy, traffic, claims,
                   fetchCalls, socketCalls, simulated>>

\* calculateTrafficRisk(waypoints) up to its return or first suspension,
\* lines 1062-1072: without a key the simulated value, at once; with a key
\* getRouteTrafficRisk, whose promise is settled in this turn when it opens
\* no session that stays pending.
calculateTrafficRisk_call(key) ==
    IF ~isSet(key)
    THEN /\ traffic' \in SimulatedValues(waypoints, HIGH_RISK_ZONES.traffic)
         /\ UNCHANGED <<sessions, results, realTraffic, socketCalls>>
         /\ simulated' = {"piracy", "claims", "traffic"}
    ELSE \E t \in getRouteTrafficRisk(waypoints, key) :
             /\ sessions' = t.sessions
             /\ results' = t.results
             /\ realTraffic' = t.value
             /\ socketCalls' = socketCalls + t.calls
             /\ traffic' \in (IF t.value = PENDING THEN {PENDING}
                              ELSE calculateTrafficRisk(waypoints, t.value))
             /\ simulated' = IF t.value = NULL
                             THEN {"piracy", "claims", "traffic"}
                             ELSE {"piracy", "claims"}

\* calculateRouteRisk(waypoints), lines 1115-1123: the four factor
\* functions are called one after the other, each running up to its first
\* await, and the call suspends at the await of Promise.all.
calculateRouteRisk_call ==
    /\ pc = "idle"
    /\ entry = "calculateRouteRisk"
    /\ Len(waypoints) # 0
    /\ LET w == getRouteWeatherRisk(waypoints)
       IN  /\ fetches' = w.fetches
           /\ responses' = [i \in DOMAIN w.fetches |-> "pending"]
           /\ fetchCalls' = Len(w.fetches)
           /\ realWeather' = w.value
           /\ weather' = PENDING
    /\ piracy' \in calculatePiracyRisk(waypoints)
    /\ calculateTrafficRisk_call(apiKey)
    /\ claims' \in calculateClaimsRisk(waypoints)
    /\ UNCHANGED <<call, entry, waypoints, apiKey>>
    /\ endOfTurn

\* getRouteWeatherRisk(waypoints), called on its own.
getRouteWeatherRisk_call ==
    /\ pc = "idle"
    /\ entry = "getRouteWeatherRisk"
    /\ LET w == getRouteWeatherRisk(waypoints)
       IN  /\ fetches' = w.fetches
           /\ responses' = [i \in DOMAIN w.fetches |-> "pending"]
           /\ fetchCalls' = Len(w.fetches)
           /\ realWeather' = w.value
    /\ UNCHANGED <<call, entry, waypoints, apiKey, sessions, results, realTraffic,
                   weather, piracy, traffic, claims, socketCalls, simulated>>
    /\ endOfTurn

\* getRouteTrafficRisk(waypoints, apiKey), called on its own.
getRouteTrafficRisk_call ==
    /\ pc = "idle"
    /\ entry = "getRouteTrafficRisk"
    /\ \E t \in getRouteTrafficRisk(waypoints, apiKey) :
           /\ sessions' = t.sessions
           /\ results' = t.results
           /\ realTraffic' = t.value
           /\ socketCalls' = socketCalls + t.calls
    /\ UNCHANGED <<call, entry, waypoints, apiKey, fetches, responses, realWeather, weather,
                   piracy, traffic, claims, fetchCalls, simulated>>
    /\ endOfTurn

(***************************************************************************)
(* The weather factor: the turn in which a fetch completes.                *)
(***************************************************************************)
\* The rest of a turn that left the getWeatherRisk promises as riskPromises:
\* when they are all settled getRouteWeatherRisk returns, and
\* calculateWeatherRisk resumes at line 1048 and returns.
weatherTurn(riskPromises) ==
    /\ fetches' = riskPromises
    /\ realWeather' = weatherPromise(riskPromises)
    /\ IF entry = "calculateRouteRisk" /\ realWeather' # PENDING
       THEN /\ weather' \in calculateWeatherRisk(waypoints, realWeather')
            /\ simulated' = IF realWeather' = NULL
                            THEN simulated \cup {"weather"}
                            ELSE simulated
       ELSE UNCHANGED <<weather, simulated>>
    /\ UNCHANGED <<call, entry, waypoints, apiKey, sessions, results, realTraffic,
                   piracy, traffic, claims, fetchCalls, socketCalls>>
    /\ endOfTurn

\* A failed fetch that is issued once more while its promise stays
\* pending: the variant that C17_NoRetry has to tell from
\* fetchMarineWeather_fail.
fetchMarineWeather_failRetry(i) ==
    /\ fetches[i] = PENDING
    /\ fetchCalls <= Len(fetches)
    /\ fetchCalls' = fetchCalls + 1
    /\ UNCHANGED <<call, entry, waypoints, apiKey, pc, fetches, responses,
                   realWeather, sessions, results, realTraffic, weather,
                   piracy, traffic, claims, returned, socketCalls, simulated>>

\* fetchMarineWeather returns null: fetch rejected (caught at line 51) or
\* the response was not ok (line 37).  getWeatherRisk passes the null on.
fetchMarineWeather_fail(i) ==
    /\ fetches[i] = PENDING
    /\ responses' = [responses EXCEPT ![i] = "failed"]
    /\ weatherTurn([fetches EXCEPT ![i] = NULL])

\* fetchMarineWeather returns the WeatherData read from the body of a 2xx
\* response, with 0 for every field the body lacks, and getWeatherRisk
\* scores it.
fetchMarineWeather_ok(i, data) ==
    /\ fetches[i] = PENDING
    /\ responses' = [responses EXCEPT
                        ![i] = IF isComplete(data) THEN "complete"
                               ELSE "incomplete"]
    /\ weatherTurn([fetches EXCEPT
                       ![i] = Num(weatherRiskScore(parseWeatherData(data)))])

(***************************************************************************)
(* The traffic factor: the turns of one getVesselDensity session.          *)
(***************************************************************************)
\* What the feed can send: a position report of a vessel, a message of
\* another type about a vessel, or text that JSON.parse rejects.  (A
\* position report with the identifier 0 leaves a session as a message of
\* another type does; SessionMessages has one.)
Messages ==
    [MessageType : {"PositionReport"}, UserID : 1..MaxVessels]
        \cup { [MessageType |-> "ShipStaticData", UserID |-> 1],
               [MessageType |-> "unparsable", UserID |-> 0] }

\* ws.on('open'), lines 108-118.
onOpen(s) == [s EXCEPT !.subscribed = s.ws]

\* A handler that takes the identifier of every message that parses,
\* whatever its type: the variant that C23_DistinctNonZero has to tell from
\* onMessage.
onMessage_anyType(s, message) ==
    IF message.MessageType # "unparsable" /\ message.UserID # 0
    THEN [s EXCEPT !.vessels = s.vessels \cup {message.UserID}]
    ELSE s

\* ws.on('message'), lines 120-133.  if (position?.UserID) is a test of
\* truthiness: an identifier of 0 is passed over as a missing one is.
onMessage(s, message) ==
    IF message.MessageType = "PositionReport" /\ message.UserID # 0
    THEN [s EXCEPT !.vessels = s.vessels \cup {message.UserID}]
    ELSE s

\* The identifiers that a message reports the position of.
positionReported(message) ==
    IF message.MessageType = "PositionReport" THEN {message.UserID} ELSE {}

\* An error handler that resolves the score of an empty box instead of
\* null: the variant that C25_ErrorIsNoData has to tell from onError.
onError_emptyBox(s) == resolve(cleanup(s), Num(trafficRiskScore(0)))

\* ws.on('error'), lines 135-139.
onError(s) == resolve(cleanup(s), NULL)

\* ws.on('close'), lines 141-143.
onClose(s) == cleanup(s)

\* const vesselCount = vessels.size, line 84.
vesselCount(s) == Cardinality(s.vessels)

\* The setTimeout callback, lines 81-106.
onTimeout(s) ==
    resolve(cleanup([s EXCEPT !.timeout = "fired"]),
            Num(trafficRiskScore(vesselCount(s))))

\* The rest of a turn whose handler left session i as s.  When the handler
\* settled the promise that getRouteTrafficRisk awaits, the loop resumes at
\* line 177 and runs on to its next suspension or to the return, and after
\* the return calculateTrafficRisk resumes at line 1074 and returns.
trafficTurn(i, s) ==
    LET sess == [sessions EXCEPT ![i] = s]
        ends == IF sessions[i].promise = PENDING /\ s.promise # PENDING
                THEN trafficLoop(sess, pushResult(results, s), i + 1, apiKey)
                ELSE { [sessions |-> sess, results |-> results,
                        value |-> realTraffic, calls |-> 0] }
    IN  \E t \in ends :
        /\ sessions' = t.sessions
        /\ results' = t.results
        /\ realTraffic' = t.value
        /\ socketCalls' = socketCalls + t.calls
        /\ IF entry = "calculateRouteRisk" /\ realTraffic = PENDING
                  /\ t.value # PENDING
           THEN /\ traffic' \in calculateTrafficRisk(waypoints, t.value)
                /\ simulated' = IF t.value = NULL
                                THEN simulated \cup {"traffic"}
                                ELSE simulated
           ELSE UNCHANGED <<traffic, simulated>>
        /\ UNCHANGED <<call, entry, waypoints, apiKey, fetches, responses, realWeather,
                       weather, piracy, claims, fetchCalls>>
        /\ endOfTurn

\* A turn that settles nothing: only the session changes.
sessionTurn(i, s) ==
    /\ sessions' = [sessions EXCEPT ![i] = s]
    /\ UNCHANGED <<call, entry, waypoints, apiKey, pc, fetches, responses, realWeather,
                   results, realTraffic, weather, piracy, traffic, claims,
                   returned, fetchCalls, socketCalls, simulated>>

\* The connection is established.  A socket on which close() was called
\* while it was connecting does not open.
canOpen(s) == s.socket = "connecting" /\ ~s.closeCalled

ws_open(i) ==
    /\ Started(i)
    /\ canOpen(sessions[i])
    /\ sessionTurn(i, [onOpen(sessions[i]) EXCEPT !.socket = "open"])

\* The feed sends a message, until the socket has closed.
canMessage(s) == s.socket = "open"

ws_message(i, message) ==
    /\ Started(i)
    /\ canMessage(sessions[i])
    /\ sessionTurn(i, onMessage(sessions[i], message))

\* The connection fails; the socket emits 'error' and will emit 'close'.
canError(s) == s.socket \in {"connecting", "open"}

ws_error(i) ==
    /\ Started(i)
    /\ canError(sessions[i])
    /\ trafficTurn(i, [onError(sessions[i]) EXCEPT !.socket = "errored"])

\* The socket emits 'close': after an error, after close() was called, or
\* because the peer ended an open connection.
canClose(s) ==
    \/ s.socket \in {"open", "errored"}
    \/ s.socket = "connecting" /\ s.closeCalled

ws_close(i) ==
    /\ Started(i)
    /\ canClose(sessions[i])
    /\ sessionTurn(i, [onClose(sessions[i]) EXCEPT !.socket = "closed"])

\* The timer of the session fires.
canFire(s) == s.timeout = "pending"

timeout_fire(i) ==
    /\ Started(i)
    /\ canFire(sessions[i])
    /\ trafficTurn(i, onTimeout(sessions[i]))

Next ==
    \/ calculateRouteRisk_empty
    \/ calculateRouteRisk_call
    \/ getRouteWeatherRisk_call
    \/ getRouteTrafficRisk_call
    \/ \E i \in DOMAIN fetches : fetchMarineWeather_fail(i)
    \/ \E i \in DOMAIN fetches, data \in MarineResponses :
           fetchMarineWeather_ok(i, data)
    \/ \E i \in DOMAIN sessions : ws_open(i)
    \/ \E i \in DOMAIN sessions, message \in Messages : ws_message(i, message)
    \/ \E i \in DOMAIN sessions : ws_error(i)
    \/ \E i \in DOMAIN sessions : ws_close(i)
    \/ \E i \in DOMAIN sessions : timeout_fire(i)

Spec == Init /\ [][Next]_vars

(***************************************************************************)
(* The pure functions of the engine, each called on its own.  The call is  *)
(* drawn in the initial state and one step runs the function; the engine   *)
(* itself stays idle.                                                      *)
(***************************************************************************)
Factors == DOMAIN HIGH_RISK_ZONES

\* Every zone that is compiled in.
CompiledZones == UNION { HIGH_RISK_ZONES[f] : f \in Factors }

\* Latitudes and longitudes on, next to and far from the bounds of the
\* zones, some of them outside [-90, 90] and [-180, 180].
Lats == {0 - 91, 0 - 6, 0 - 5, 0, 10, 15, 16, 45, 46, 95}
Lngs == {0 - 181, 0 - 11, 0 - 10, 40, 60, 61, 110, 160, 161, 200}

\* Waypoints given to the estimator: the Gulf of Aden (piracy zone), the
\* Southern Ocean (no zone) and the Malacca Strait (piracy and traffic).
EstimatorPoints == { Waypoint(7, 50), Waypoint(0 - 60, 0 - 170), Waypoint(3, 103) }

\* Math.random() * 0.5 in 64ths, from 0 to the largest value below 0.5;
\* for lists of up to four waypoints the double result is the exact one.
EstimatorJitter64 == {0, 3, 8, 31}

\* A route of n distinct waypoints along the equator.
Route(n) == [i \in 1..n |-> Waypoint(0, i - 1)]

\* The target counts of the two providers (lines 119 and 169).
SampleTargets == {5, 3}

\* Sub-scores given to the weighted sum: the ends and the middle of the
\* range, neighbours of halves, and a negative weather value.
SubScores == {0 - 40, 0, 2, 6, 50, 99, 100}

Call(fn, args) == [fn |-> fn, args |-> args, done |-> FALSE]

FunctionCalls ==
    { Call("isInZone", [lat |-> lat, lng |-> lng, zone |-> zone]) :
          lat \in Lats, lng \in Lngs, zone \in CompiledZones }
    \cup { Call(fn, [waypoints |-> wps, factor |-> f]) :
               fn \in {"calculateSimulatedRisk", "calculateFactorRisk"},
               wps \in WaypointLists(EstimatorPoints, MaxEstimatorWaypoints),
               f \in Factors }
    \cup { Call("sample", [waypoints |-> Route(n), target |-> t]) :
               n \in 1..MaxSampleN, t \in SampleTargets }
    \cup { Call("trafficRiskScore", [vesselCount |-> c]) :
               c \in 0..MaxVesselCount }
    \cup { Call("combine", [weather |-> w, piracy |-> p, traffic |-> t,
                            claims |-> c]) :
               w \in SubScores, p \in SubScores \ {0 - 40},
               t \in SubScores \ {0 - 40}, c \in SubScores \ {0 - 40} }

FunctionInit ==
    /\ call \in FunctionCalls
    /\ entry = "calculateRouteRisk"
    /\ waypoints = << >>
    /\ apiKey = "undefined"
    /\ pc = "idle"
    /\ fetches = << >>
    /\ responses = << >>
    /\ realWeather = PENDING
    /\ sessions = << >>
    /\ results = << >>
    /\ realTraffic = PENDING
    /\ weather = PENDING
    /\ piracy = PENDING
    /\ traffic = PENDING
    /\ claims = PENDING
    /\ returned = NoScores
    /\ fetchCalls = 0
    /\ socketCalls = 0
    /\ simulated = {}

\* The call returns result.
return(result) ==
    /\ call' = [fn |-> call.fn, args |-> call.args, done |-> TRUE,
                result |-> result]
    /\ UNCHANGED engineVars

isInZone_run ==
    /\ call.fn = "isInZone"
    /\ ~call.done
    /\ return(isInZone(call.args.lat, call.args.lng, call.args.zone))

\* The estimator draws one Math.random() for each waypoint outside the
\* zones; the values drawn are kept with the result.
calculateSimulatedRisk_run ==
    /\ call.fn = "calculateSimulatedRisk"
    /\ ~call.done
    /\ \E jit \in [1..Len(call.args.waypoints) -> EstimatorJitter64] :
           return([jitter |-> jit,
                   value |-> calculateSimulatedRisk(
                                 call.args.waypoints,
                                 HIGH_RISK_ZONES[call.args.factor], jit)])

calculateFactorRisk_run ==
    /\ call.fn = "calculateFactorRisk"
    /\ ~call.done
    /\ \E jit \in [1..Len(call.args.waypoints) -> EstimatorJitter64] :
           return([jitter |-> jit,
                   value |-> calculateFactorRisk(
                                 call.args.waypoints,
                                 HIGH_RISK_ZONES[call.args.factor], jit)])

\* The sampling step of a provider.
sample_run ==
    /\ call.fn = "sample"
    /\ ~call.done
    /\ return(sampledWaypoints(call.args.waypoints, call.args.target))

\* The score of the timeout handler.
trafficRiskScore_run ==
    /\ call.fn = "trafficRiskScore"
    /\ ~call.done
    /\ return(trafficRiskScore(call.args.vesselCount))

\* Lines 1125-1131 of calculateRouteRisk: the overall score and the
\* record.
combine_run ==
    /\ call.fn = "combine"
    /\ ~call.done
    /\ return(combine(Num(call.args.weather), Num(call.args.piracy),
                      Num(call.args.traffic), Num(call.args.claims)))

FunctionNext ==
    \/ combine_run
    \/ isInZone_run
    \/ calculateSimulatedRisk_run
    \/ calculateFactorRisk_run
    \/ sample_run
    \/ trafficRiskScore_run

FunctionSpec == FunctionInit /\ [][FunctionNext]_vars

(***************************************************************************)
(* One getVesselDensity session on its own, called with a key: the events  *)
(* of its socket and its timer in every order the handlers allow, with the *)
(* history of what the feed reported.                                      *)
(***************************************************************************)
\* The feed also sends position reports with the identifier 0 (an
\* unprogrammed transponder).
SessionMessages ==
    [MessageType : {"PositionReport"}, UserID : 0..MaxSessionVessels]
        \cup { [MessageType |-> "ShipStaticData", UserID |-> 1],
               [MessageType |-> "unparsable", UserID |-> 0] }

\* session      the closure of the call
\* reported     history: the UserIDs of the PositionReport messages that the
\*              socket delivered before the timer fired
\* vesselCount  the vesselCount that the timeout handler computed
SessionInit ==
    /\ call \in { [fn |-> "getVesselDensity", done |-> FALSE,
                    session |-> getVesselDensity("key", constructorThrows),
                    reported |-> {}, vesselCount |-> 0] :
                      constructorThrows \in BOOLEAN }
    /\ entry = "getRouteTrafficRisk"
    /\ waypoints = << >>
    /\ apiKey = "key"
    /\ pc = "idle"
    /\ fetches = << >>
    /\ responses = << >>
    /\ realWeather = PENDING
    /\ sessions = << >>
    /\ results = << >>
    /\ realTraffic = PENDING
    /\ weather = PENDING
    /\ piracy = PENDING
    /\ traffic = PENDING
    /\ claims = PENDING
    /\ returned = NoScores
    /\ fetchCalls = 0
    /\ socketCalls = 0
    /\ simulated = {}

InSession == call.fn = "getVesselDensity"

session_open ==
    /\ InSession
    /\ canOpen(call.session)
    /\ call' = [call EXCEPT
                   !.session = [onOpen(call.session) EXCEPT !.socket = "open"]]
    /\ UNCHANGED engineVars

session_message(message) ==
    /\ InSession
    /\ canMessage(call.session)
    /\ call' = [call EXCEPT
                   !.session = onMessage(call.session, message),
                   !.reported = IF call.session.timeout = "pending"
                                THEN @ \cup positionReported(message)
                                ELSE @]
    /\ UNCHANGED engineVars

session_error ==
    /\ InSession
    /\ canError(call.session)
    /\ call' = [call EXCEPT
                   !.session = [onError(call.session) EXCEPT
                                    !.socket = "errored"]]
    /\ UNCHANGED engineVars

session_close ==
    /\ InSession
    /\ canClose(call.session)
    /\ call' = [call EXCEPT
                   !.session = [onClose(call.session) EXCEPT
                                    !.socket = "closed"]]
    /\ UNCHANGED engineVars

session_timeout ==
    /\ InSession
    /\ canFire(call.session)
    /\ call' = [call EXCEPT !.session = onTimeout(call.session),
                            !.vesselCount = vesselCount(call.session)]
    /\ UNCHANGED engineVars

SessionNext ==
    \/ session_open
    \/ \E message \in SessionMessages : session_message(message)
    \/ session_error
    \/ session_close
    \/ session_timeout

SessionSpec == SessionInit /\ [][SessionNext]_vars

(***************************************************************************)
(* Two getVesselDensity calls whose sessions are open at the same time, as *)
(* the sessions of two calculateRouteRisk calls are, or a session that was *)
(* resolved and has not closed yet next to the session of the following    *)
(* sampled waypoint.  Each call runs the executor of lines 59-65 and has   *)
(* a closure of its own in sessions; the events of the two sockets         *)
(* interleave freely.                                                      *)
(***************************************************************************)
PairMessages ==
    [MessageType : {"PositionReport"}, UserID : 1..MaxPairVessels]
        \cup { [MessageType |-> "ShipStaticData", UserID |-> 1] }

Pair == {1, 2}

\* received     history: for each socket, the UserIDs of the PositionReport
\*              messages it delivered
\* vesselCount  for each session, the vesselCount that its timeout handler
\*              computed
\* counted      history: for each socket, what it had delivered when its
\*              timer fired
PairInit ==
    /\ call = [fn |-> "getVesselDensity pair", done |-> FALSE,
               received |-> [i \in Pair |-> {}],
               vesselCount |-> [i \in Pair |-> 0],
               counted |-> [i \in Pair |-> {}]]
    /\ sessions = [i \in Pair |-> getVesselDensity("key", FALSE)]
    /\ entry = "getRouteTrafficRisk"
    /\ waypoints = << >>
    /\ apiKey = "key"
    /\ pc = "idle"
    /\ fetches = << >>
    /\ responses = << >>
    /\ realWeather = PENDING
    /\ results = << >>
    /\ realTraffic = PENDING
    /\ weather = PENDING
    /\ piracy = PENDING
    /\ traffic = PENDING
    /\ claims = PENDING
    /\ returned = NoScores
    /\ fetchCalls = 0
    /\ socketCalls = 2
    /\ simulated = {}

InPair == call.fn = "getVesselDensity pair"

pairVars ==
    <<entry, waypoints, apiKey, pc, fetches, responses, realWeather,
      results, realTraffic, weather, piracy, traffic, claims, returned,
      fetchCalls, socketCalls, simulated>>

pair_open(i) ==
    /\ InPair
    /\ canOpen(sessions[i])
    /\ sessions' = [sessions EXCEPT
                       ![i] = [onOpen(sessions[i]) EXCEPT !.socket = "open"]]
    /\ UNCHANGED <<call, pairVars>>

\* One Set for every session, as a Set declared outside the executor would
\* be: the variant that C30_OwnSocketOnly has to tell from pair_message.
pair_message_sharedSet(i, message) ==
    /\ InPair
    /\ canMessage(sessions[i])
    /\ sessions' = [k \in Pair |->
                       [sessions[k] EXCEPT
                           !.vessels = onMessage(sessions[i], message).vessels
                                           \cup sessions[k].vessels]]
    /\ call' = [call EXCEPT
                   !.received[i] = @ \cup positionReported(message)]
    /\ UNCHANGED pairVars

\* Socket i delivers a message to the handler of its own closure, lines
\* 120-133.
pair_message(i, message) ==
    /\ InPair
    /\ canMessage(sessions[i])
    /\ sessions' = [sessions EXCEPT ![i] = onMessage(sessions[i], message)]
    /\ call' = [call EXCEPT
                   !.received[i] = @ \cup positionReported(message)]
    /\ UNCHANGED pairVars

pair_error(i) ==
    /\ InPair
    /\ canError(sessions[i])
    /\ sessions' = [sessions EXCEPT
                       ![i] = [onError(sessions[i]) EXCEPT
                                  !.socket = "errored"]]
    /\ UNCHANGED <<call, pairVars>>

pair_close(i) ==
    /\ InPair
    /\ canClose(sessions[i])
    /\ sessions' = [sessions EXCEPT
                       ![i] = [onClose(sessions[i]) EXCEPT
                                  !.socket = "closed"]]
    /\ UNCHANGED <<call, pairVars>>

pair_timeout(i) ==
    /\ InPair
    /\ canFire(sessions[i])
    /\ sessions' = [sessions EXCEPT ![i] = onTimeout(sessions[i])]
    /\ call' = [call EXCEPT !.vesselCount[i] = vesselCount(sessions[i]),
                            !.counted[i] = call.received[i]]
    /\ UNCHANGED pairVars

PairNext ==
    \/ \E i \in Pair : pair_open(i)
    \/ \E i \in Pair, message \in PairMessages : pair_message(i, message)
    \/ \E i \in Pair : pair_error(i)
    \/ \E i \in Pair : pair_close(i)
    \/ \E i \in Pair : pair_timeout(i)

PairSpec == PairInit /\ [][PairNext]_vars

(***************************************************************************)
(* server/routes.ts: POST /api/calculate-risk, lines 22-31.  One request:  *)
(* the turn of the handler up to its await, and the turn in which the      *)
(* promise of calculateRouteRisk is settled.  What calculateRouteRisk does *)
(* is the engine above; the handler sees only how its promise ends.        *)
(***************************************************************************)
STRING_VALUE == [type |-> "string", val |-> 0]

\* A request body is its waypoints member: whether it is an array, and the
\* elements when it is.  A waypoint of a request body, field by field.
BodyWaypoint(lat, lng, seq) ==
    [latitude |-> lat, longitude |-> lng, sequence |-> seq]

\* Bodies that riskCalculationSchema accepts: waypoints is an array (an
\* empty one too) of objects with three numbers.
ValidBodies ==
    { [isArray |-> TRUE,
       waypoints |-> [i \in 1..Len(wps) |->
                         BodyWaypoint(Num(wps[i].latitude),
                                       Num(wps[i].longitude), Num(i))]] :
          wps \in WaypointLists(Points, MaxBodyWaypoints) }

\* Bodies that it rejects: no waypoints, a latitude that is a string, a
\* waypoint without its sequence number.
InvalidBodies ==
    { [isArray |-> FALSE, waypoints |-> << >>],
      [isArray |-> TRUE,
       waypoints |-> <<BodyWaypoint(STRING_VALUE, Num(103), Num(1))>>],
      [isArray |-> TRUE,
       waypoints |-> <<BodyWaypoint(Num(3), Num(103), Num(1)),
                       BodyWaypoint(Num(3), Num(104), UNDEFINED)>>] }

\* A schema that asks for latitude and longitude only: the variant that
\* C29_AnswersOrRejects has to tell from riskCalculationSchema_parse.
riskCalculationSchema_noSequence(body) ==
    /\ body.isArray
    /\ \A i \in DOMAIN body.waypoints :
           /\ IsNumber(body.waypoints[i].latitude)
           /\ IsNumber(body.waypoints[i].longitude)

\* riskCalculationSchema.parse(req.body) does not throw, lines 12-18.
riskCalculationSchema_parse(body) ==
    /\ body.isArray
    /\ \A i \in DOMAIN body.waypoints :
           /\ IsNumber(body.waypoints[i].latitude)
           /\ IsNumber(body.waypoints[i].longitude)
           /\ IsNumber(body.waypoints[i].sequence)

\* How the promise of calculateRouteRisk can end for the handler: with a
\* RiskScores record, or rejected with an error whose message may be
\* empty.
RouteResults ==
    { combine(Num(w), Num(p), Num(t), Num(c)) :
          w \in {0, 100}, p \in {0, 100}, t \in {0, 100}, c \in {0, 100} }

ErrorMessages == {"", "engine failure"}

Response(status, body) == [status |-> status, body |-> body]

NoResponse == Response(0, UNDEFINED)

\* error.message || "Failed to calculate risk", line 28.
messageOf(message) ==
    IF message = "" THEN "Failed to calculate risk" ELSE message

\* stage     "received", "awaiting" (at the await of line 25), "answered"
\* invoked   number of calculateRouteRisk calls
\* response  what res was given
RouteInit ==
    /\ call \in { [fn |-> "POST /api/calculate-risk", done |-> FALSE,
                    args |-> [body |-> body], stage |-> "received",
                    invoked |-> 0, outcome |-> "none",
                    response |-> NoResponse] :
                      body \in ValidBodies \cup InvalidBodies }
    /\ entry = "calculateRouteRisk"
    /\ waypoints = << >>
    /\ apiKey = "undefined"
    /\ pc = "idle"
    /\ fetches = << >>
    /\ responses = << >>
    /\ realWeather = PENDING
    /\ sessions = << >>
    /\ results = << >>
    /\ realTraffic = PENDING
    /\ weather = PENDING
    /\ piracy = PENDING
    /\ traffic = PENDING
    /\ claims = PENDING
    /\ returned = NoScores
    /\ fetchCalls = 0
    /\ socketCalls = 0
    /\ simulated = {}

InRequest == call.fn = "POST /api/calculate-risk"

\* Lines 23-25, and 26-29 when parse throws (a ZodError has a message).
post_request ==
    /\ InRequest
    /\ call.stage = "received"
    /\ IF riskCalculationSchema_parse(call.args.body)
       THEN call' = [call EXCEPT !.stage = "awaiting",
                                 !.invoked = call.invoked + 1]
       ELSE call' = [call EXCEPT
                        !.stage = "answered",
                        !.outcome = "invalid",
                        !.response =
                            Response(400,
                                     [message |-> messageOf("ZodError")])]
    /\ UNCHANGED engineVars

\* calculateRouteRisk returned riskScores: line 26.
post_resolved(riskScores) ==
    /\ InRequest
    /\ call.stage = "awaiting"
    /\ call' = [call EXCEPT !.stage = "answered",
                            !.outcome = "returned",
                            !.response = Response(200, riskScores)]
    /\ UNCHANGED engineVars

\* calculateRouteRisk threw: lines 27-29.
post_rejected(message) ==
    /\ InRequest
    /\ call.stage = "awaiting"
    /\ call' = [call EXCEPT
                   !.stage = "answered",
                   !.outcome = "threw",
                   !.response = Response(400,
                                         [message |-> messageOf(message)])]
    /\ UNCHANGED engineVars

RouteNext ==
    \/ post_request
    \/ \E riskScores \in RouteResults : post_resolved(riskScores)
    \/ \E message \in ErrorMessages : post_rejected(message)

RouteSpec == RouteInit /\ [][RouteNext]_vars

(***************************************************************************)
(* Properties.                                                             *)
(***************************************************************************)
\* calculateRouteRisk was called with a non-empty list and has returned.
ReturnedNonEmpty ==
    /\ entry = "calculateRouteRisk"
    /\ Len(waypoints) > 0
    /\ pc = "returned"

\* v is an integer of [0, 100].
InRange(v) == IsNumber(v) /\ v.val >= 0 /\ v.val <= 100

\* The exact weighted sum of the returned sub-scores, times 100.
WeightedSum100 ==
    25 * returned.weather.val + 35 * returned.piracy.val
        + 20 * returned.traffic.val + 20 * returned.claims.val

\* Every sampled weather fetch has failed.
AllFetchesFailed == \A i \in DOMAIN fetches : fetches[i] = NULL

\* Every traffic session was started and has resolved null.
AllSessionsFailed == \A i \in DOMAIN sessions : sessions[i].promise = NULL

\* The credential is absent or empty.
NoCredential == apiKey = "undefined" \/ apiKey = ""

\* C1: whatever the weather source and the vessel feed do, every field of
\* the RiskScores that calculateRouteRisk returns for a non-empty list is
\* an integer of [0, 100].  The weather point score has no lower clamp
\* (see C21), so a negative reading makes this fail.
C1_FieldsInRange ==
    ReturnedNonEmpty =>
        /\ InRange(returned.overall)
        /\ InRange(returned.weather)
        /\ InRange(returned.piracy)
        /\ InRange(returned.traffic)
        /\ InRange(returned.claims)

\* C2: calculateRouteRisk([]) returns five zeros in the turn of the call,
\* and no fetch was issued, no session opened and the estimator not called.
C2_EmptyList ==
    (entry = "calculateRouteRisk" /\ Len(waypoints) = 0 /\ pc # "idle") =>
        /\ pc = "returned"
        /\ returned = RiskScores(Num(0), Num(0), Num(0), Num(0), Num(0))
        /\ fetchCalls = 0
        /\ fetches = << >>
        /\ socketCalls = 0
        /\ sessions = << >>
        /\ simulated = {}

C2_EmptyListReturned ==
    /\ entry = "calculateRouteRisk"
    /\ Len(waypoints) = 0
    /\ pc = "returned"

\* C3, as claimed: the returned overall is the exact weighted sum
\* 0.25 weather + 0.35 piracy + 0.20 traffic + 0.20 claims of the returned
\* sub-scores, rounded half up.
C3_RoundHalfUp ==
    ReturnedNonEmpty =>
        /\ IsNumber(returned.overall)
        /\ returned.overall.val = (WeightedSum100 + 50) \div 100

\* C3, amended: the returned overall is an integer within one half of the
\* exact weighted sum of the returned sub-scores.  (It is the double sum,
\* rounded half up; when the exact sum is half-way between two integers the
\* double sum can fall below it, and overall is then the lower of the two.)
C3_OverallNearest ==
    ReturnedNonEmpty =>
        /\ IsNumber(returned.overall)
        /\ Abs(100 * returned.overall.val - WeightedSum100) <= 50

\* An exact sum half-way between two integers, returned as the lower one.
C3_TieRoundedDown ==
    /\ ReturnedNonEmpty
    /\ IsNumber(returned.overall)
    /\ 100 * returned.overall.val + 50 = WeightedSum100

\* C4: once every weather fetch has failed and every traffic session has
\* resolved null (or there is no credential), calculateRouteRisk has
\* returned a RiskScores of five numbers whose weather and traffic fields
\* are values of the estimator over the weather and the traffic zones.
C4_FallbackComplete ==
    (/\ entry = "calculateRouteRisk"
     /\ Len(waypoints) > 0
     /\ pc # "idle"
     /\ AllFetchesFailed
     /\ NoCredential \/ AllSessionsFailed) =>
        /\ pc = "returned"
        /\ returned.weather
               \in SimulatedValues(waypoints, HIGH_RISK_ZONES.weather)
        /\ returned.traffic
               \in SimulatedValues(waypoints, HIGH_RISK_ZONES.traffic)
        /\ IsNumber(returned.overall)
        /\ IsNumber(returned.weather)
        /\ IsNumber(returned.piracy)
        /\ IsNumber(returned.traffic)
        /\ IsNumber(returned.claims)

\* Both providers failed: the fetches, and the sessions of a call that
\* had a credential.
C4_BothProvidersFailed ==
    /\ ReturnedNonEmpty
    /\ apiKey = "key"
    /\ Len(fetches) > 0
    /\ AllFetchesFailed
    /\ \E i \in DOMAIN sessions : sessions[i].socket = "errored"
    /\ AllSessionsFailed

\* Something is still to happen: the call itself, the completion of a
\* fetch, an event of a socket that has not closed, or a timer that was
\* not cancelled.  (The condition under which Next is enabled.)
EventPending ==
    \/ pc = "idle"
    \/ \E i \in DOMAIN fetches : fetches[i] = PENDING
    \/ \E i \in DOMAIN sessions :
           \/ sessions[i].socket \in {"connecting", "open", "errored"}
           \/ sessions[i].timeout = "pending"

\* C5: calculateRouteRisk on a non-empty list returns in the end: as long
\* as it has not returned, a fetch is outstanding, a socket has an event
\* to deliver or a timer is pending.  A session whose socket the peer
\* closes before the timer fires is left with its timer cleared and its
\* promise pending (see C22), and the call never returns.
C5_EventuallyReturns ==
    (entry = "calculateRouteRisk" /\ Len(waypoints) > 0) =>
        (pc = "returned" \/ EventPending)

\* C6: without a credential (undefined or empty) no WebSocket is ever
\* constructed, and the traffic factor is a value of the estimator over the
\* traffic zones, settled in the turn of the call.
C6_NoSocketWithoutKey ==
    NoCredential =>
        /\ socketCalls = 0
        /\ \A i \in DOMAIN sessions : sessions[i].socket = "none"
        /\ (entry = "calculateRouteRisk" /\ Len(waypoints) > 0
                /\ pc # "idle") =>
               /\ traffic \in SimulatedValues(waypoints,
                                              HIGH_RISK_ZONES.traffic)
               /\ "traffic" \in simulated
               /\ realTraffic = PENDING

C6_EmptyKeyReturned ==
    /\ ReturnedNonEmpty
    /\ apiKey = ""
    /\ returned.traffic = traffic

\* C7: the sessions of one getRouteTrafficRisk call are created in the
\* order of the sampled waypoints, each only after the one before has
\* resolved; at most one of them is unresolved at any time.
C7_SessionsSequential ==
    /\ \A i, j \in DOMAIN sessions :
           (i < j /\ sessions[j].called) =>
               (sessions[i].called /\ sessions[i].promise # PENDING)
    /\ Cardinality({ i \in DOMAIN sessions :
                        sessions[i].called /\ sessions[i].promise = PENDING })
           <= 1

\* The second session is under way after the first has resolved.
C7_SecondAfterFirst ==
    /\ Len(sessions) >= 2
    /\ sessions[1].socket # "none"
    /\ sessions[1].promise # PENDING
    /\ sessions[2].socket = "open"
    /\ sessions[2].promise = PENDING

\* C8: the call issues all four factors in its own turn (every sampled
\* fetch, the two estimated factors, and with a credential the first
\* session), none waiting for another; it returns in the turn in which
\* the last of the four settles, not before; and what it returns is the
\* four values and their combination, whichever settled first.
C8_JoinAllFour ==
    (entry = "calculateRouteRisk" /\ Len(waypoints) > 0 /\ pc # "idle") =>
        /\ fetchCalls = Len(sampledWaypoints(waypoints, 5))
        /\ Len(fetches) = fetchCalls
        /\ piracy # PENDING
        /\ claims # PENDING
        /\ apiKey = "key" => sessions[1].called
        /\ pc = "returned" <=>
               (weather # PENDING /\ piracy # PENDING /\ traffic # PENDING
                    /\ claims # PENDING)
        /\ pc = "returned" =>
               /\ returned.weather = weather
               /\ returned.piracy = piracy
               /\ returned.traffic = traffic
               /\ returned.claims = claims
               /\ returned.overall
                      = weightedOverall(weather, piracy, traffic, claims)

\* A weather fetch and a traffic session are under way at the same time.
C8_BothInFlight ==
    /\ entry = "calculateRouteRisk"
    /\ pc = "awaiting"
    /\ \E i \in DOMAIN fetches : fetches[i] = PENDING
    /\ \E i \in DOMAIN sessions :
           sessions[i].socket = "open" /\ sessions[i].promise = PENDING

\* C9: when a getVesselDensity call has resolved, whether with a score
\* after the timeout, with null after an error or with null after the
\* constructor threw, close() has been called on the socket if one was
\* created, and the timer is not pending.
C9_ReleasedOnResolve ==
    \A i \in DOMAIN sessions :
        (sessions[i].called /\ sessions[i].promise # PENDING) =>
            /\ sessions[i].socket # "none" => sessions[i].closeCalled
            /\ sessions[i].timeout # "pending"
            /\ ~sessions[i].ws

\* One session has resolved null after an error, another with a score
\* after its timeout.
C9_ErrorAndTimeoutExits ==
    /\ Len(sessions) >= 2
    /\ sessions[1].promise = NULL
    /\ sessions[1].socket # "none"
    /\ IsNumber(sessions[2].promise)
    /\ sessions[2].timeout = "fired"

\* C10: getRouteWeatherRisk returns null exactly when no sampled fetch
\* succeeded; otherwise it returns the mean of the scores of the fetches
\* that succeeded, rounded half up: the failed samples count neither in
\* the sum nor in the number it is divided by.
C10_WeatherAverage ==
    (pc # "idle" /\ realWeather # PENDING) =>
        LET ok == { i \in DOMAIN fetches : IsNumber(fetches[i]) }
            n == Cardinality(ok)
            sum == SumTo([i \in DOMAIN fetches |->
                             IF i \in ok THEN fetches[i].val ELSE 0],
                         Len(fetches))
        IN  /\ \A i \in DOMAIN fetches : fetches[i] # PENDING
            /\ realWeather = NULL <=> n = 0
            /\ n > 0 =>
                   /\ IsNumber(realWeather)
                   /\ 2 * n * realWeather.val <= 2 * sum + n
                   /\ 2 * sum + n < 2 * n * (realWeather.val + 1)

\* One sample failed, one succeeded with a score other than 0, and the
\* provider returned that score.
C10_OneFailedOneSucceeded ==
    /\ entry = "getRouteWeatherRisk"
    /\ Len(fetches) = 2
    /\ fetches[1] = NULL
    /\ IsNumber(fetches[2])
    /\ fetches[2].val # 0
    /\ realWeather = fetches[2]

\* getRouteTrafficRisk ran with a credential on a non-empty list and has
\* returned.
TrafficProviderReturned ==
    /\ apiKey = "key"
    /\ Len(waypoints) > 0
    /\ pc # "idle"
    /\ realTraffic # PENDING

C12_MissingFieldsFail ==
    /\ \A i \in DOMAIN responses :
           responses[i] \in {"failed", "incomplete"} => fetches[i] = NULL
    /\ (/\ Len(responses) > 0
        /\ realWeather # PENDING
        /\ \A i \in DOMAIN responses :
               responses[i] \in {"failed", "incomplete"})
           => realWeather = NULL

\* C13: the estimator called with zero waypoints returns 0, for every zone
\* set, in the asynchronous engine (calculateSimulatedRisk) and in the
\* synchronous one (calculateFactorRisk).
C13_ZeroWaypointsZero ==
    (/\ call.fn \in {"calculateSimulatedRisk", "calculateFactorRisk"}
     /\ call.done
     /\ Len(call.args.waypoints) = 0)
        => call.result.value = Num(0)

\* The sampling step ran on its own.
Sampled == call.fn = "sample" /\ call.done

ZoneTested == call.fn = "isInZone" /\ call.done

\* C16: isInZone(lat, lng, zone) is true exactly when lat is in
\* [minLat, maxLat] and lng is in [minLng, maxLng], all four bounds
\* inclusive; for coordinates outside [-90, 90] x [-180, 180] it returns
\* false for every compiled-in zone (it returns a boolean, it raises
\* nothing).
C16_InclusiveBounds ==
    ZoneTested =>
        LET lat == call.args.lat
            lng == call.args.lng
            zone == call.args.zone
            outside == \/ lat < zone.minLat
                       \/ zone.maxLat < lat
                       \/ lng < zone.minLng
                       \/ zone.maxLng < lng
        IN  /\ call.result \in BOOLEAN
            /\ call.result <=> ~outside
            /\ (lat > 90 \/ lat < 0 - 90 \/ lng > 180 \/ lng < 0 - 180)
                   => call.result = FALSE

\* A point on the upper bounds of the Gulf of Aden zone is inside it.
C16_OnUpperBounds ==
    /\ ZoneTested
    /\ call.args.zone = Zone(0, 15, 40, 60)
    /\ call.args.lat = 15
    /\ call.args.lng = 60
    /\ call.result = TRUE

\* C17: there is no retry.  Once the call has started, the number of
\* fetches issued is the number of sampled waypoints (one each, none
\* when the weather provider is not called), whatever failed since; the
\* number of WebSocket constructions is the number of sampled waypoints
\* whose session was started, one each and at most the number of sampled
\* waypoints; and a factor that fell back to the estimator has left every
\* one of its samples failed and none pending.
C17_NoRetry ==
    pc # "idle" =>
        /\ fetchCalls = (IF entry = "getRouteTrafficRisk"
                         THEN 0
                         ELSE Len(sampledWaypoints(waypoints, 5)))
        /\ Len(fetches) = fetchCalls
        /\ socketCalls = constructed(sessions)
        /\ socketCalls <= Len(sampledWaypoints(waypoints, 3))
        /\ entry = "getRouteWeatherRisk" => socketCalls = 0
        /\ "weather" \in simulated =>
               \A i \in DOMAIN fetches : fetches[i] = NULL
        /\ ("traffic" \in simulated /\ isSet(apiKey)) =>
               /\ socketCalls = Len(sessions)
               /\ \A i \in DOMAIN sessions : sessions[i].promise = NULL

\* The only fetch and the only session of a route failed, and both
\* factors fell back to the estimator after one call each.
C17_FailedOnceEach ==
    /\ entry = "calculateRouteRisk"
    /\ pc = "returned"
    /\ Len(waypoints) = 1
    /\ isSet(apiKey)
    /\ fetchCalls = 1
    /\ fetches[1] = NULL
    /\ socketCalls = 1
    /\ sessions[1].promise = NULL
    /\ simulated = {"weather", "piracy", "traffic", "claims"}

\* calculateSimulatedRisk ran on its own, on at least one waypoint.
Estimated ==
    /\ call.fn = "calculateSimulatedRisk"
    /\ call.done
    /\ Len(call.args.waypoints) >= 1

\* C19: for N >= 1 waypoints the estimator returns
\* min(round(S / (2N) * 100), 100), where S has 2 for each waypoint inside
\* at least one zone of the factor and the jitter drawn, a value of
\* [0, 0.5), for each other waypoint.  So a route that lies inside a zone
\* scores 100, a route with no waypoint in a zone scores at most 25, and
\* the piracy score of the single waypoint (7, 50) is 100, above that of
\* the single waypoint (-60, -170), which is at most 25.
C19_EstimatorFormula ==
    Estimated =>
        LET wps == call.args.waypoints
            N == Len(wps)
            zones == HIGH_RISK_ZONES[call.args.factor]
            inside == { i \in 1..N :
                          \E z \in zones :
                              /\ z.minLat <= wps[i].latitude
                              /\ wps[i].latitude <= z.maxLat
                              /\ z.minLng <= wps[i].longitude
                              /\ wps[i].longitude <= z.maxLng }
            \* S in 64ths
            S64 == SumTo([i \in 1..N |->
                             IF i \in inside THEN 2 * 64
                             ELSE call.result.jitter[i]], N)
            v == call.result.value
        IN  /\ IsNumber(v)
            /\ \E r \in 0..200 :
                   \* r = round(S / (2N) * 100): r - 1/2 <= S64 * 100 / (128 N)
                   \* < r + 1/2
                   /\ (2 * r - 1) * 128 * N <= 200 * S64
                   /\ 200 * S64 < (2 * r + 1) * 128 * N
                   /\ v.val = Min(r, 100)
            /\ inside = 1..N => v.val = 100
            /\ inside = {} => v.val <= 25
            /\ call.args.factor = "piracy" =>
                   /\ wps = <<Waypoint(7, 50)>> => v.val = 100
                   /\ wps = <<Waypoint(0 - 60, 0 - 170)>> => v.val <= 25

\* A route of two waypoints, one inside a piracy zone and one outside with
\* the largest jitter: (2 + 31/64) / 4 * 100 = 62.1, so 62.
C19_MixedRoute ==
    /\ Estimated
    /\ call.args.factor = "piracy"
    /\ call.args.waypoints = <<Waypoint(7, 50), Waypoint(0 - 60, 0 - 170)>>
    /\ call.result.jitter[2] = 31
    /\ call.result.value = Num(62)

\* The density score ran on its own.
Scored == call.fn = "trafficRiskScore" /\ call.done

\* r is num / den rounded to the nearest integer, halves up (den > 0).
Nearest(r, num, den) ==
    /\ (2 * r - 1) * den <= 2 * num
    /\ 2 * num < (2 * r + 1) * den

\* C20: a session that reaches its timeout with c distinct vessels scores
\* round(f(c / 12321)), f being the curve of four segments
\*   density < 0.01    min(density * 1000, 20)
\*   [0.01, 0.05)      20 + (density - 0.01) / 0.04 * 30
\*   [0.05, 0.1)       50 + (density - 0.05) / 0.05 * 30
\*   >= 0.1            min(80 + (density - 0.1) * 200, 100)
\* and the score lies in [0, 100] and does not decrease when c grows.
\* With density = c / 12321 the segments are stated in whole numbers.
C20_DensityCurve ==
    Scored =>
        LET c == call.args.vesselCount
            r == call.result
        IN  /\ IF 100 * c < 12321
               THEN \/ 1000 * c <= 20 * 12321 /\ Nearest(r, 1000 * c, 12321)
                    \/ 1000 * c > 20 * 12321 /\ r = 20
               ELSE IF 100 * c < 5 * 12321
               THEN Nearest(r, 80 * 12321 + 30 * (100 * c - 12321), 4 * 12321)
               ELSE IF 10 * c < 12321
               THEN Nearest(r, 250 * 12321 + 30 * (100 * c - 5 * 12321),
                            5 * 12321)
               ELSE \/ /\ 20 * (10 * c - 12321) <= 20 * 12321
                       /\ Nearest(r, 80 * 12321 + 20 * (10 * c - 12321), 12321)
                    \/ 20 * (10 * c - 12321) > 20 * 12321 /\ r = 100
            /\ 0 <= r
            /\ r <= 100
            /\ c > 0 => trafficRiskScore(c - 1) <= r

\* 1233 vessels are a density of just over 0.1 and score 80; the vessel
\* before them is in the third segment.
C20_FourthSegment ==
    /\ Scored
    /\ call.args.vesselCount = 1233
    /\ call.result = 80

\* C21: the weather point score computed from one successful fetch is the
\* rounded, capped weighted sum of the three factors, and for every
\* reading that the source returns, negative values included, it is never
\* negative and never above 100.
C21_PointScoreInRange ==
    \A i \in DOMAIN fetches :
        IsNumber(fetches[i]) => fetches[i].val >= 0 /\ fetches[i].val <= 100

\* C22: every getVesselDensity call started with a credential resolves
\* exactly once, whatever the order of the events.  A timeout that fires
\* first gives the score, and the score stays; an error that comes first
\* gives null, and the timer does not fire afterwards; and a call that
\* has not resolved yet, also after a close without an error, still has
\* its timer to resolve it.
C22_ResolvesOnce ==
    \A i \in DOMAIN sessions :
        (Started(i) /\ isSet(apiKey)) =>
            /\ sessions[i].timeout = "fired" => IsNumber(sessions[i].promise)
            /\ sessions[i].promise = NULL => sessions[i].timeout # "fired"
            /\ sessions[i].promise = PENDING =>
                   sessions[i].timeout = "pending"

\* C23, as claimed: the vessel count of a session is the number of
\* distinct identifiers carried by the position reports received before
\* the timeout fires.
C23_DistinctReported ==
    InSession =>
        /\ call.session.timeout = "pending" =>
               vesselCount(call.session) = Cardinality(call.reported)
        /\ call.session.timeout = "fired" =>
               call.vesselCount = Cardinality(call.reported)

\* C23, amended: the vessel count of a session is the number of distinct
\* identifiers other than 0 carried by the position reports received
\* before the timeout fires.  Repeated reports of one vessel count once;
\* a report with the identifier 0 or none, a message of another type and
\* a message that does not parse leave the set as it is.
C23_DistinctNonZero ==
    InSession =>
        /\ call.session.timeout = "pending" =>
               call.session.vessels = call.reported \ {0}
        /\ call.session.timeout = "fired" =>
               /\ call.vesselCount = Cardinality(call.reported \ {0})
               /\ IsNumber(call.session.promise)

\* The feed reported the vessels 0 and 1 and the timeout counted one.
C23_ZeroNotCounted ==
    /\ InSession
    /\ call.session.timeout = "fired"
    /\ call.reported = {0, 1}
    /\ call.vesselCount = 1

\* C24: for the weather and the traffic factor the estimator is evaluated
\* exactly when the external provider is unavailable (it returned null,
\* or, for traffic, there is no credential to call it with).  A result of
\* the provider, 0 included, is the value of the factor as it is, and the
\* estimator is not evaluated for that factor.
C24_ExactlyOneSource ==
    (entry = "calculateRouteRisk" /\ Len(waypoints) > 0 /\ pc # "idle") =>
        /\ "weather" \in simulated <=> realWeather = NULL
        /\ "traffic" \in simulated <=>
               (NoCredential \/ realTraffic = NULL)
        /\ weather # PENDING <=> realWeather # PENDING
        /\ IsNumber(realWeather) => weather = realWeather
        /\ realWeather = NULL =>
               weather \in SimulatedValues(waypoints, HIGH_RISK_ZONES.weather)
        /\ ~NoCredential =>
               /\ traffic # PENDING <=> realTraffic # PENDING
               /\ IsNumber(realTraffic) => traffic = realTraffic
               /\ realTraffic = NULL =>
                      traffic \in SimulatedValues(waypoints,
                                                  HIGH_RISK_ZONES.traffic)

\* Both providers returned 0 for a waypoint in the Malacca Strait, where
\* the estimator gives the traffic factor 100: both zeros were returned
\* and the estimator ran for piracy and claims only.
C24_ZeroIsAScore ==
    /\ ReturnedNonEmpty
    /\ waypoints = <<Waypoint(3, 103)>>
    /\ realWeather = Num(0)
    /\ realTraffic = Num(0)
    /\ returned.weather = Num(0)
    /\ returned.traffic = Num(0)
    /\ simulated = {"piracy", "claims"}

\* The sessions that have resolved without a vessel in their set.
ResolvedEmpty ==
    { i \in DOMAIN sessions :
          /\ Started(i)
          /\ sessions[i].promise # PENDING
          /\ sessions[i].vessels = {} }

\* C25, as claimed: with a credential, a session whose feed errors at once
\* and a session that reaches its timeout without a vessel report are
\* treated the same: both give density 0 and its score, and so the same
\* contribution to the traffic factor.
C25_ErrorAsEmpty ==
    isSet(apiKey) =>
        \A i \in ResolvedEmpty :
            sessions[i].promise = Num(trafficRiskScore(0))

\* C25, amended: with a credential, the two are told apart.  A session
\* that reaches its timeout without a vessel report gives the score of
\* density 0, which is 0 and enters the average; a session that ends in
\* an error (or whose socket could not be constructed) gives null and
\* enters nothing; so a route whose sessions all reached their timeout
\* without a report has the traffic value 0, and a route whose sessions
\* all ended in an error has none (null, for the estimator to replace).
C25_ErrorIsNoData ==
    isSet(apiKey) =>
        /\ \A i \in ResolvedEmpty :
               IF sessions[i].timeout = "fired"
               THEN sessions[i].promise = Num(0)
               ELSE sessions[i].promise = NULL
        /\ (realTraffic # PENDING /\ ResolvedEmpty = DOMAIN sessions
                /\ Len(sessions) > 0) =>
               /\ (\A i \in DOMAIN sessions : sessions[i].timeout = "fired")
                      => (realTraffic = Num(0)
                             /\ Len(results) = Len(sessions))
               /\ (\A i \in DOMAIN sessions : sessions[i].timeout # "fired")
                      => (realTraffic = NULL /\ Len(results) = 0)

\* Of two sessions without a vessel report the first ended in an error
\* before its socket opened and the second reached its timeout: one
\* result, the 0 of the second.
C25_OneOfEach ==
    /\ entry = "getRouteTrafficRisk"
    /\ Len(sessions) = 2
    /\ ResolvedEmpty = {1, 2}
    /\ ~sessions[1].subscribed
    /\ sessions[1].timeout = "cleared"
    /\ sessions[1].promise = NULL
    /\ sessions[2].timeout = "fired"
    /\ sessions[2].promise = Num(0)
    /\ results = <<0>>
    /\ realTraffic = Num(0)

\* Lines 1125-1131 ran on four sub-scores.
Combined == call.fn = "combine" /\ call.done

\* C26: the overall score of a returned RiskScores lies between the
\* smallest and the largest of its four sub-scores; it is 0 when all four
\* are 0 and 100 when all four are 100.
C26_OverallBetween ==
    Combined =>
        LET r == call.result
            subs == {r.weather.val, r.piracy.val, r.traffic.val, r.claims.val}
        IN  /\ r.weather = Num(call.args.weather)
            /\ r.piracy = Num(call.args.piracy)
            /\ r.traffic = Num(call.args.traffic)
            /\ r.claims = Num(call.args.claims)
            /\ IsNumber(r.overall)
            /\ \E lo \in subs : lo <= r.overall.val
            /\ \E hi \in subs : r.overall.val <= hi
            /\ subs = {0} => r.overall.val = 0
            /\ subs = {100} => r.overall.val = 100

\* Four sub-scores of 100 give an overall score of 100.
C26_AllHundred ==
    /\ Combined
    /\ call.args = [weather |-> 100, piracy |-> 100, traffic |-> 100,
                    claims |-> 100]
    /\ call.result.overall = Num(100)

\* Neither provider gave a value to a calculateRouteRisk call that has
\* returned: all four factors are the estimator's.
ReturnedAllSimulated ==
    /\ entry = "calculateRouteRisk"
    /\ pc = "returned"
    /\ Len(waypoints) > 0 =>
           /\ realWeather = NULL
           /\ NoCredential \/ realTraffic = NULL

\* C28: when the weather provider and the traffic provider are both
\* unavailable, the asynchronous calculateRouteRisk returns what the
\* synchronous, simulated-only calculateRouteRisk returns for the same
\* waypoints and the same jitter of each factor and waypoint.  (The jitter
\* that the asynchronous call drew is the one that gives its sub-scores:
\* over Jitter64 a sub-score fixes the sum of the jitter behind it.)
C28_SameAsSynchronous ==
    ReturnedAllSimulated =>
        LET n == Len(waypoints)
            drew(factor, zones, jit) ==
                n > 0 => factor = calculateSimulatedRisk(waypoints, zones, jit)
        IN  \E jw \in JitterVectors(n) :
            /\ drew(returned.weather, HIGH_RISK_ZONES.weather, jw)
            /\ \E jp \in JitterVectors(n) :
               /\ drew(returned.piracy, HIGH_RISK_ZONES.piracy, jp)
               /\ \E jt \in JitterVectors(n) :
                  /\ drew(returned.traffic, HIGH_RISK_ZONES.traffic, jt)
                  /\ \E jc \in JitterVectors(n) :
                     /\ drew(returned.claims, HIGH_RISK_ZONES.claims, jc)
                     /\ returned = calculateRouteRisk_sync(
                                       waypoints,
                                       [weather |-> jw, piracy |-> jp,
                                        traffic |-> jt, claims |-> jc])

\* The fetch and the session of a waypoint in the Malacca Strait failed;
\* piracy and traffic are 100 as in the synchronous engine.
C28_FallbackInZone ==
    /\ ReturnedAllSimulated
    /\ waypoints = <<Waypoint(3, 103)>>
    /\ apiKey = "key"
    /\ fetchCalls = 1
    /\ socketCalls = 1
    /\ returned.piracy = Num(100)
    /\ returned.traffic = Num(100)

\* C29: POST /api/calculate-risk answers with the RiskScores record when
\* the computation returns, and with status 400 and a message that is not
\* empty when the body fails validation or calculateRouteRisk throws;
\* when validation fails calculateRouteRisk is not invoked (and it is
\* invoked once otherwise).
C29_AnswersOrRejects ==
    InRequest =>
        /\ call.args.body \in InvalidBodies =>
               /\ call.invoked = 0
               /\ call.stage # "awaiting"
               /\ call.stage = "answered" =>
                      /\ call.response.status = 400
                      /\ call.response.body.message # ""
        /\ (call.args.body \in ValidBodies /\ call.stage # "received") =>
               call.invoked = 1
        /\ call.outcome = "returned" =>
               /\ call.response.status = 200
               /\ call.response.body \in RouteResults
        /\ call.outcome = "threw" =>
               /\ call.response.status = 400
               /\ call.response.body.message # ""
        /\ call.stage = "answered" <=> call.response.status # 0

\* A body whose second waypoint has no sequence number was answered with
\* 400 and calculateRouteRisk was not called.
C29_InvalidNotComputed ==
    /\ InRequest
    /\ call.stage = "answered"
    /\ Len(call.args.body.waypoints) = 2
    /\ call.args.body.waypoints[2].sequence = UNDEFINED
    /\ call.response.status = 400
    /\ call.invoked = 0

\* C30: each vessel-feed session counts only the vessels reported on its
\* own socket: with two sessions open at the same time, the Set of a
\* session holds the identifiers that its own socket delivered and no
\* other, and the vesselCount and the riskScore of its timeout are those
\* of what its own socket had delivered when its timer fired.
C30_OwnSocketOnly ==
    InPair =>
        \A i \in Pair :
            /\ sessions[i].vessels = call.received[i]
            /\ sessions[i].timeout = "fired" =>
                   /\ call.vesselCount[i] = Cardinality(call.counted[i])
                   /\ sessions[i].promise =
                          Num(trafficRiskScore(Cardinality(call.counted[i])))

\* Both timers fired; socket 1 had delivered two vessels and socket 2
\* none, and the counts are 2 and 0.
C30_TwoAndNone ==
    /\ InPair
    /\ sessions[1].timeout = "fired"
    /\ sessions[2].timeout = "fired"
    /\ Cardinality(call.counted[1]) = 2
    /\ call.vesselCount[1] = 2
    /\ call.received[2] = {}
    /\ call.vesselCount[2] = 0

=============================================================================
